---- MODULE Spec2Model ----
(***************************************************************************)
(* Model of aicssegmentation/core/utils.py: the array primitives           *)
(* hole_filling, topology_preserving_thinning, divide_nonzero,             *)
(* histogram_otsu, absolute_eigenvaluesh / sortbyabs and                   *)
(* get_3dseed_from_mid_frame.  Every function is pure: one call is one     *)
(* action that reads args and writes ret.  An array is the sequence of its *)
(* elements in C order together with its shape.                            *)
(***************************************************************************)
EXTENDS Integers, Sequences, FiniteSets, TLC

VARIABLES pc, args, ret, again
vars == <<pc, args, ret, again>>

(* ---------------- bounds of the explored inputs ---------------- *)
\* a 2D mask is Side2 x Side2
Side2 == 3
\* a 3D mask is Side3 x Side3 x Side3
Side3 == 2
\* at most this many background pixels in a 2D mask
MaxBg2 == 3
\* at most this many background voxels in a 3D mask
MaxBg3 == 2
\* hole_min and hole_max range over 0..MaxHole
MaxHole == 3

(* ---------------- generic array helpers ---------------- *)
None == [kind |-> "None"]

Max(S) == CHOOSE m \in S : \A n \in S : n <= m
Min(S) == CHOOSE m \in S : \A n \in S : m <= n
Abs(n) == IF n < 0 THEN -n ELSE n

\* the elements of a sequence, computed once (an array held in memory rather
\* than an expression evaluated again on every access)
Arr(f) == f \o <<>>

RECURSIVE KSubsets(_, _)
\* all subsets of S with at most k elements
KSubsets(S, k) ==
    IF k = 0 THEN {{}}
    ELSE LET prev == KSubsets(S, k - 1)
         IN  prev \cup {s \cup {x} : s \in prev, x \in S}

RECURSIVE Stride(_, _)
\* number of elements one step along axis k spans (C order); Stride(shape, 0)
\* is the size of the array
Stride(shape, k) == IF k >= Len(shape) THEN 1 ELSE shape[k + 1] * Stride(shape, k + 1)

Size(shape) == Stride(shape, 0)

\* An array is the sequence of its elements in C order: the element at index
\* tuple (i1, .., in) is number i1*Stride(1) + .. + in*Stride(n), counted from 0.
Pos(shape) == 0..(Size(shape) - 1)

\* coordinate of flat position i along axis k
Coord(i, shape, k) == (i \div Stride(shape, k)) % shape[k]

At(arr, i) == arr[i + 1]

\* bw > 0
Threshold(img) == [i \in DOMAIN img |-> img[i] > 0]

\* a boolean array read as numbers (True is 1, False is 0)
AsInt(b) == [i \in DOMAIN b |-> IF b[i] THEN 1 ELSE 0]

\* ~bw
Invert(bw) == [i \in DOMAIN bw |-> ~bw[i]]

\* bw[zz, :, :]
Slice(arr, shape, zz) ==
    SubSeq(arr, zz * Stride(shape, 1) + 1, (zz + 1) * Stride(shape, 1))

(* ---------------- skimage.measure.label ---------------- *)
\* neighbours under connectivity=1: one coordinate differs by one
Adjacent1(p, q, shape) ==
    \E k \in 1..Len(shape) :
        /\ Abs(p - q) = Stride(shape, k)
        /\ p \div Stride(shape, k - 1) = q \div Stride(shape, k - 1)

\* neighbours under full connectivity: every coordinate differs by at most one
AdjacentFull(p, q, shape) ==
    /\ p # q
    /\ \A k \in 1..Len(shape) : Abs(Coord(p, shape, k) - Coord(q, shape, k)) <= 1

Adjacent(p, q, shape, connectivity) ==
    IF connectivity = 1 THEN Adjacent1(p, q, shape) ELSE AdjacentFull(p, q, shape)

RECURSIVE Grow(_, _, _, _)
\* the connected component of the seed set C inside S
Grow(C, S, shape, connectivity) ==
    LET C2 == C \cup {q \in S : \E p \in C : Adjacent(p, q, shape, connectivity)}
    IN  IF C2 = C THEN C ELSE Grow(C2, S, shape, connectivity)

Components(S, shape, connectivity) == {Grow({p}, S, shape, connectivity) : p \in S}

\* label(mask, connectivity): 0 on false pixels, components numbered 1, 2, ...
\* in the raster order of their first pixel
Label(mask, shape, connectivity) ==
    LET S     == {i - 1 : i \in {j \in DOMAIN mask : mask[j]}}
        comps == Components(S, shape, connectivity)
        num(c) == Cardinality({d \in comps : Min(d) <= Min(c)})
    IN  Arr([i \in DOMAIN mask |->
                IF ~mask[i] THEN 0
                ELSE num(CHOOSE c \in comps : (i - 1) \in c)])

\* np.bincount(lab.ravel())
Bincount(lab) ==
    [l \in 0..Max({lab[p] : p \in DOMAIN lab}) |->
        Cardinality({p \in DOMAIN lab : lab[p] = l})]

(* ---------------- hole_filling ---------------- *)
LogicalAnd(a, b) == [p \in DOMAIN a |-> a[p] /\ b[p] # 0]
SecondOperand(a, b) == [p \in DOMAIN a |-> b[p] # 0]
\* np.logical_or(bw, fill_out): a is boolean, b holds integers (labels, or the
\* 0/1 of a boolean array), true where non-zero
LogicalOr(a, b) == [p \in DOMAIN a |-> a[p] \/ b[p] # 0]

TooBigInclusive(component_sizes, hole_max) ==
    [l \in DOMAIN component_sizes |-> component_sizes[l] >= hole_max]
\* too_big = component_sizes > hole_max
TooBig(component_sizes, hole_max) ==
    [l \in DOMAIN component_sizes |-> component_sizes[l] > hole_max]

\* too_small = component_sizes < hole_min
TooSmall(component_sizes, hole_min) ==
    [l \in DOMAIN component_sizes |-> component_sizes[l] < hole_min]

\* the label / bincount / too_big / too_small block, on one array
SizeFilter(notbw, shape, hole_min, hole_max) ==
    LET background_lab  == Label(notbw, shape, 1)
        component_sizes == Bincount(background_lab)
        too_big         == TooBig(component_sizes, hole_max)
        too_big_mask    == [p \in DOMAIN notbw |-> too_big[background_lab[p]]]
        fill1           == [p \in DOMAIN notbw |->
                               IF too_big_mask[p] THEN 0 ELSE background_lab[p]]
        too_small       == TooSmall(component_sizes, hole_min)
        too_small_mask  == [p \in DOMAIN notbw |-> too_small[background_lab[p]]]
    IN  [p \in DOMAIN notbw |-> IF too_small_mask[p] THEN 0 ELSE fill1[p]]

\* the len(bw.shape) == 2 branch
FillOut2D(bw, shape, hole_min, hole_max) ==
    SizeFilter(Invert(bw), shape, hole_min, hole_max)

FillOutVolumeAlways(bw, shape, hole_min, hole_max) ==
    SizeFilter(Invert(bw), shape, hole_min, hole_max)
\* the fill_2d branch: fill_out[zz, :, :] = out for every zz; fill_out is a
\* boolean array (zeros_like(bw)), so a label is stored as 1 when non-zero
FillOutSlices(bw, shape, hole_min, hole_max) ==
    LET out == [zz \in 0..(shape[1] - 1) |->
                   SizeFilter(Invert(Slice(bw, shape, zz)), Tail(shape),
                              hole_min, hole_max)]
    IN  [i \in DOMAIN bw |->
            IF At(out[Coord(i - 1, shape, 1)], (i - 1) % Stride(shape, 1)) # 0
            THEN 1 ELSE 0]

\* the fill_2d == False branch
FillOutVolume(bw, shape, hole_min, hole_max) ==
    SizeFilter(Invert(bw), shape, hole_min, hole_max)

hole_filling(img, shape, hole_min, hole_max, fill_2d) ==
    LET bw == Threshold(img)
    IN  IF Len(shape) = 2
        THEN [kind |-> "array", printed |-> <<>>,
              val |-> LogicalOr(bw, FillOut2D(bw, shape, hole_min, hole_max))]
        ELSE IF Len(shape) = 3
        THEN IF fill_2d
             THEN [kind |-> "array", printed |-> <<>>,
                   val |-> LogicalOr(bw, FillOutSlices(bw, shape, hole_min, hole_max))]
             ELSE [kind |-> "array", printed |-> <<>>,
                   val |-> LogicalOr(bw, FillOutVolume(bw, shape, hole_min, hole_max))]
        ELSE [kind |-> "None", printed |-> <<"error">>]

\* the shapes explored, by number of dimensions
ShapeOf(nd) ==
    CASE nd = 1 -> <<Side2>>
      [] nd = 2 -> <<Side2, Side2>>
      [] nd = 3 -> <<Side3, Side3, Side3>>
      [] nd = 4 -> <<1, 1, Side3, Side3>>

\* images of the shape with at most k background pixels; a background pixel
\* holds 0 or -1 and a foreground pixel 1 or 255, by the parity of its position
Images(shape, k) ==
    {[i \in 1..Size(shape) |-> IF (i - 1) \in Z THEN -(i % 2) ELSE 1 + 254 * (i % 2)] :
        Z \in KSubsets(Pos(shape), k)}

InitFill ==
    /\ pc = "call"
    /\ \E nd \in 1..4 :
         \E img \in Images(ShapeOf(nd), IF nd = 2 THEN MaxBg2 ELSE MaxBg3) :
           \E fill_2d \in (IF nd = 3 THEN BOOLEAN ELSE {TRUE}) :
             args = [fn |-> "hole_filling", bw |-> img, shape |-> ShapeOf(nd),
                     fill_2d |-> fill_2d]
    /\ ret = None
    /\ again = None

\* out = hole_filling(bw, hole_min, hole_max, fill_2d)
CallHoleFilling ==
    /\ pc = "call"
    /\ args.fn = "hole_filling"
    /\ \E hole_min \in 0..MaxHole, hole_max \in 0..MaxHole :
         /\ args' = args @@ [hole_min |-> hole_min, hole_max |-> hole_max]
         /\ ret' = hole_filling(args.bw, args.shape, hole_min, hole_max, args.fill_2d)
    /\ pc' = "returned"
    /\ UNCHANGED again

\* hole_filling(out, hole_min, hole_max, fill_2d) on the first call's result
CallHoleFillingAgain ==
    /\ pc = "returned"
    /\ args.fn = "hole_filling"
    /\ ret.kind = "array"
    /\ again' = hole_filling(AsInt(ret.val), args.shape, args.hole_min, args.hole_max,
                             args.fill_2d)
    /\ pc' = "reapplied"
    /\ UNCHANGED <<args, ret>>

NextFill == CallHoleFilling \/ CallHoleFillingAgain

SpecFill == InitFill /\ [][NextFill]_vars


(* ---------------- topology_preserving_thinning ---------------- *)
\* min_thickness ranges over 0..MaxThick
MaxThick == 1
\* thin ranges over 1..MaxThin
MaxThin == 1
\* at most this many background voxels in a mask to thin
ThinBg == 1

\* skimage.morphology.ball(radius): the offsets within the radius
Ball(radius) ==
    LET R == (-radius)..radius
    IN  {o : o \in {v \in R \X R \X R :
                      v[1] * v[1] + v[2] * v[2] + v[3] * v[3] <= radius * radius}}

\* index i outside 0..n-1 as scipy.ndimage's mode='reflect' reads it
\* (d c b a | a b c d | d c b a)
Reflect(i, n) ==
    LET m == i % (2 * n) IN IF m < n THEN m ELSE 2 * n - 1 - m

\* erosion(bw, footprint) of a 3D array: true where bw is true on the whole
\* footprint around the voxel.  src[k][c][d] is the reflected coordinate c + d
\* along axis k, times the stride of that axis.
Erosion(bw, shape, footprint) ==
    LET src == [k \in 1..3 |->
                   [c \in 0..(shape[k] - 1) |->
                       [d \in {o[k] : o \in footprint} |->
                           Reflect(c + d, shape[k]) * Stride(shape, k)]]]
        s1 == Stride(shape, 1)
        s2 == Stride(shape, 2)
    IN  Arr([i \in DOMAIN bw |->
                LET z == src[1][(i - 1) \div s1]
                    y == src[2][((i - 1) \div s2) % shape[2]]
                    x == src[3][(i - 1) % shape[3]]
                IN  \A o \in footprint : bw[z[o[1]] + y[o[2]] + x[o[3]] + 1]])

\* np.logical_xor
LogicalXor(a, b) == Arr([i \in DOMAIN a |-> a[i] # b[i]])

\* squared Euclidean distance of two pixels of one slice
DistSq(p, q, slice_shape) ==
    LET dy == Coord(p, slice_shape, 1) - Coord(q, slice_shape, 1)
        dx == Coord(p, slice_shape, 2) - Coord(q, slice_shape, 2)
    IN  dy * dy + dx * dx

\* distance_transform_edt(ctl == 0) > min_thickness + 1e-5 on one slice.  The
\* squared distance d2 to the nearest pixel of ctl is an integer, so for an
\* integer min_thickness >= 0 the test is d2 > min_thickness^2.
SafeSlice(ctl, slice_shape, min_thickness) ==
    LET axis == {q \in Pos(slice_shape) : At(ctl, q)}
    IN  Arr([i \in DOMAIN ctl |->
                Min({DistSq(i - 1, q, slice_shape) : q \in axis})
                    > min_thickness * min_thickness])

\* the loop over zz that fills safe_zone; ctl[zz] is medial_axis(bw[zz])
SafeZone(bw, shape, ctl, min_thickness) ==
    LET safe == [zz \in 0..(shape[1] - 1) |->
                    IF \E i \in 1..Stride(shape, 1) : bw[zz * Stride(shape, 1) + i]
                    THEN SafeSlice(Slice(ctl, shape, zz), Tail(shape), min_thickness)
                    ELSE [i \in 1..Stride(shape, 1) |-> FALSE]]
    IN  Arr([i \in DOMAIN bw |->
                At(safe[Coord(i - 1, shape, 1)], (i - 1) % Stride(shape, 1))])

RemoveCandidates(bw, safe_zone, rm_candidate) ==
    [i \in DOMAIN bw |-> bw[i] /\ ~rm_candidate[i]]
\* bw[np.logical_and(safe_zone, rm_candidate)] = 0
RemoveSafeCandidates(bw, safe_zone, rm_candidate) ==
    [i \in DOMAIN bw |-> bw[i] /\ ~(safe_zone[i] /\ rm_candidate[i])]

\* ctl is what medial_axis returned for the slices
topology_preserving_thinning(img, shape, min_thickness, thin, ctl) ==
    LET bw           == Threshold(img)
        safe_zone    == SafeZone(bw, shape, ctl, min_thickness)
        eroded       == Erosion(bw, shape, Ball(thin))
        rm_candidate == LogicalXor(bw, eroded)
    IN  [kind |-> "array", printed |-> <<>>,
         val |-> RemoveSafeCandidates(bw, safe_zone, rm_candidate),
         safe_zone |-> safe_zone, eroded |-> eroded, rm_candidate |-> rm_candidate]

\* the skeleton patterns explored in a slice: one pixel, one row or one column
AxisPatterns(slice_shape) ==
    LET P == Pos(slice_shape)
    IN  {{q} : q \in P}
        \cup {{q \in P : Coord(q, slice_shape, 1) = r} : r \in 0..(slice_shape[1] - 1)}
        \cup {{q \in P : Coord(q, slice_shape, 2) = c} : c \in 0..(slice_shape[2] - 1)}

\* What medial_axis may return for the slices of bw: a subset of each slice's
\* foreground, non-empty where the slice has foreground.  The skeletons
\* explored are the foreground pixels of one pattern, the same in every slice.
MedialAxes(bw, shape) ==
    LET n    == Stride(shape, 1)
        cand == {[i \in DOMAIN bw |-> bw[i] /\ ((i - 1) % n) \in K] :
                    K \in AxisPatterns(Tail(shape))}
    IN  {ctl \in cand :
            \A zz \in 0..(shape[1] - 1) :
                (\E i \in 1..n : bw[zz * n + i]) => (\E i \in 1..n : ctl[zz * n + i])}

InitThin ==
    /\ pc = "call"
    /\ \E img \in Images(ShapeOf(3), ThinBg) :
         args = [fn |-> "topology_preserving_thinning", bw |-> img,
                 shape |-> ShapeOf(3)]
    /\ ret = None
    /\ again = None

\* out = topology_preserving_thinning(bw, min_thickness, thin)
CallThinning ==
    /\ pc = "call"
    /\ args.fn = "topology_preserving_thinning"
    /\ \E min_thickness \in 0..MaxThick, thin \in 1..MaxThin :
         \E ctl \in MedialAxes(Threshold(args.bw), args.shape) :
           /\ args' = args @@ [min_thickness |-> min_thickness, thin |-> thin]
           /\ ret' = topology_preserving_thinning(args.bw, args.shape,
                                                  min_thickness, thin, ctl)
    /\ pc' = "returned"
    /\ UNCHANGED again

NextThin == CallThinning

SpecThin == InitThin /\ [][NextThin]_vars

(* ---------------- divide_nonzero ---------------- *)
\* longest array divided
MaxLen == 2
\* array entries range over -MaxVal..MaxVal
MaxVal == 1

\* A number is num/den * 10^exp with den > 0; inf, -inf and nan are IEEE's.
Num(n) == [kind |-> "num", num |-> n, den |-> 1, exp |-> 0]

\* the 1e-10 written into the denominator
Tiny == [kind |-> "num", num |-> 1, den |-> 1, exp |-> -10]

\* denominator[denominator == 0] = 1e-10: a float array stores 1e-10, an
\* integer array stores int(1e-10), which is 0
PatchZeros(array2, dtype) ==
    [i \in DOMAIN array2 |->
        IF array2[i] = 0
        THEN (IF dtype = "float" THEN Tiny ELSE Num(0))
        ELSE Num(array2[i])]

\* np.divide on one element: x is an integer, y a number; dividing by zero
\* gives inf, -inf or nan (with a warning), not an exception
Divide(x, y) ==
    IF y.num = 0
    THEN [kind |-> IF x > 0 THEN "inf" ELSE IF x < 0 THEN "-inf" ELSE "nan"]
    ELSE [kind |-> "num",
          num |-> IF y.num > 0 THEN x * y.den ELSE -(x * y.den),
          den |-> Abs(y.num),
          exp |-> -y.exp]

divide_nonzero(array1, array2, dtype) ==
    LET denominator == PatchZeros(array2, dtype)
    IN  [kind |-> "array", printed |-> <<>>,
         val |-> [i \in DOMAIN array1 |-> Divide(array1[i], denominator[i])]]

InitDivide ==
    /\ pc = "call"
    /\ \E n \in 1..MaxLen :
         \E array1 \in [1..n -> (-MaxVal)..MaxVal], array2 \in [1..n -> (-MaxVal)..MaxVal] :
           \E dtype \in {"float", "int"} :
             args = [fn |-> "divide_nonzero", array1 |-> array1, array2 |-> array2,
                     dtype |-> dtype]
    /\ ret = None
    /\ again = None

\* out = divide_nonzero(array1, array2)
CallDivideNonzero ==
    /\ pc = "call"
    /\ args.fn = "divide_nonzero"
    /\ ret' = divide_nonzero(args.array1, args.array2, args.dtype)
    /\ pc' = "returned"
    /\ UNCHANGED <<args, again>>

NextDivide == CallDivideNonzero

SpecDivide == InitDivide /\ [][NextDivide]_vars

(* ---------------- absolute_eigenvaluesh, sortbyabs ---------------- *)
\* largest matrix is MaxDim x MaxDim
MaxDim == 2
\* most matrices in one batch
MaxBatch == 2

\* the diagonal entries explored
EigVals == {-5, -3, 3}

\* permutations of 1..n
Perms(n) == {f \in [1..n -> 1..n] : \A i, j \in 1..n : i # j => f[i] # f[j]}

RECURSIVE Insert(_, _)
\* x put into the ascending sequence s
Insert(x, s) ==
    IF s = <<>> THEN <<x>>
    ELSE IF x <= Head(s) THEN <<x>> \o s
    ELSE <<Head(s)>> \o Insert(x, Tail(s))

RECURSIVE Ascending(_)
Ascending(s) == IF s = <<>> THEN <<>> ELSE Insert(Head(s), Ascending(Tail(s)))

\* np.linalg.eigvalsh on a batch of diagonal matrices, each given by its
\* diagonal: the eigenvalues are the diagonal entries, in ascending order
Eigvalsh(diagonals) == [b \in DOMAIN diagonals |-> Ascending(diagonals[b])]

RawKey(x) == x
\* np.abs(a)
SortKey(x) == Abs(x)

\* what np.abs(a).argsort(axis=-1) may return: for every row an order that
\* makes the keys non-decreasing; equal keys come in any order (the default
\* sort is not stable)
Argsorts(a) ==
    {order \in [DOMAIN a -> Perms(IF a = <<>> THEN 0 ELSE Len(a[1]))] :
        \A b \in DOMAIN a :
            \A r \in 1..(Len(a[b]) - 1) :
                SortKey(a[b][order[b][r]]) <= SortKey(a[b][order[b][r + 1]])}

\* a[index] with index[axis] = order and the other axes open (np.ix_); the
\* list index is read as an index tuple, as the NumPy of this code does
sortbyabs(a, order) == [b \in DOMAIN a |-> [r \in DOMAIN a[b] |-> a[b][order[b][r]]]]

\* np.split along the last axis into one array per rank, each squeezed
SplitRanks(sorted_eigenvalues, n) ==
    [r \in 1..n |-> [b \in DOMAIN sorted_eigenvalues |-> sorted_eigenvalues[b][r]]]

absolute_eigenvaluesh(diagonals, n, order) ==
    [kind |-> "list", printed |-> <<>>,
     val |-> SplitRanks(sortbyabs(Eigvalsh(diagonals), order), n)]

InitEig ==
    /\ pc = "call"
    /\ \E n \in 1..MaxDim, batch \in 1..MaxBatch :
         \E diagonals \in [1..batch -> [1..n -> EigVals]] :
           args = [fn |-> "absolute_eigenvaluesh", nd_array |-> diagonals, n |-> n]
    /\ ret = None
    /\ again = None

\* out = absolute_eigenvaluesh(nd_array)
CallAbsoluteEigenvaluesh ==
    /\ pc = "call"
    /\ args.fn = "absolute_eigenvaluesh"
    /\ \E order \in Argsorts(Eigvalsh(args.nd_array)) :
         ret' = absolute_eigenvaluesh(args.nd_array, args.n, order)
    /\ pc' = "returned"
    /\ UNCHANGED <<args, again>>

NextEig == CallAbsoluteEigenvaluesh

SpecEig == InitEig /\ [][NextEig]_vars

(* ---------------- histogram_otsu ---------------- *)
\* most bins in a histogram
MaxBins == 3
\* bin counts range over 0..MaxCount
MaxCount == 3

\* hist + 1e-5 adds 1/EpsDen to every bin
EpsDen == 100000

\* A real number is kept exactly as a polynomial in e = 1/EpsDen: the sequence
\* <<c0, c1, ..>> of integer coefficients stands for c0 + c1*e + c2*e^2 + ..
Coef(p, i) == IF i \in DOMAIN p THEN p[i] ELSE 0

PAdd(p, q) ==
    Arr([i \in 1..(IF Len(p) > Len(q) THEN Len(p) ELSE Len(q)) |->
            Coef(p, i) + Coef(q, i)])

PNeg(p) == Arr([i \in DOMAIN p |-> -p[i]])

PSub(p, q) == PAdd(p, PNeg(q))

RECURSIVE SumTo(_, _, _)
\* f[lo] + .. + f[hi]
SumTo(f, lo, hi) == IF lo > hi THEN 0 ELSE f[lo] + SumTo(f, lo + 1, hi)

PMul(p, q) ==
    Arr([i \in 1..(Len(p) + Len(q) - 1) |->
            LET terms == Arr([j \in 1..Len(p) |-> p[j] * Coef(q, i - j + 1)])
            IN  SumTo(terms, 1, Len(p))])

PScale(p, c) == Arr([i \in DOMAIN p |-> c * p[i]])

RECURSIVE Leading(_, _, _)
\* The coefficients are carried from the smallest power of e upwards, as
\* digits in base EpsDen; what reaches c0 decides the sign.
Leading(p, i, carry) ==
    IF i = 1 THEN <<p[1] + carry, 0>>
    ELSE LET v    == p[i] + carry
             rest == Leading(p, i - 1, v \div EpsDen)
         IN  <<rest[1], IF v % EpsDen # 0 THEN 1 ELSE rest[2]>>

\* -1, 0 or 1: the sign of the number
Sign(p) ==
    LET l == Leading(p, Len(p), 0)
    IN  IF l[1] > 0 THEN 1 ELSE IF l[1] < 0 THEN -1 ELSE l[2]

\* a quotient of two numbers, the denominator positive
Frac(n, d) == [num |-> n, den |-> d]

\* x > y for quotients
Greater(x, y) == Sign(PSub(PMul(x.num, y.den), PMul(y.num, x.den))) > 0

\* hist + 1e-5
AddEps(hist) == Arr([i \in DOMAIN hist |-> <<hist[i], 1>>])

RECURSIVE Cumsum(_)
\* np.cumsum of a sequence of numbers
Cumsum(a) ==
    IF Len(a) <= 1 THEN a
    ELSE LET front == Cumsum(SubSeq(a, 1, Len(a) - 1))
         IN  Append(front, PAdd(front[Len(front)], a[Len(a)]))

\* a[::-1]
Reversed(a) == Arr([i \in DOMAIN a |-> a[Len(a) + 1 - i]])

\* bin_centers = np.arange(0, 1 + 0.5*bin_size, bin_size), in units of
\* bin_size = 1/(n-1): bin_centers[i] is (i-1)/(n-1)
BinCenters(n) == [i \in 1..n |-> i - 1]

\* hist * bin_centers, in units of bin_size
Weighted(hist, n) == Arr([i \in DOMAIN hist |-> PScale(hist[i], BinCenters(n)[i])])

Variance12Unclipped(weight1, weight2, sum1, sum2, n) ==
    Arr([k \in 1..(n - 1) |->
            LET d == PSub(PMul(sum1[k], weight2[k]), PMul(sum2[k], weight1[k]))
            IN  Frac(PMul(d, d),
                     PScale(PMul(weight1[k], weight2[k]), (n - 1) * (n - 1)))])
\* variance12 = weight1[:-1] * weight2[1:] * (mean1[:-1] - mean2[1:]) ** 2 with
\* mean1 = sum1/weight1 and mean2 = sum2/weight2, the sums in units of
\* bin_size: w1*w2*(s1/w1 - s2/w2)^2 = (s1*w2 - s2*w1)^2 / (w1*w2), over (n-1)^2
Variance12(weight1, weight2, sum1, sum2, n) ==
    Arr([k \in 1..(n - 1) |->
            LET d == PSub(PMul(sum1[k], weight2[k + 1]), PMul(sum2[k + 1], weight1[k]))
            IN  Frac(PMul(d, d),
                     PScale(PMul(weight1[k], weight2[k + 1]), (n - 1) * (n - 1)))])

RECURSIVE Argmax(_, _, _)
\* np.argmax: the first index (from 1) of the largest element
Argmax(v, i, best) ==
    IF i > Len(v) THEN best
    ELSE Argmax(v, i + 1, IF Greater(v[i], v[best]) THEN i ELSE best)

histogram_otsu(hist0) ==
    LET n == Len(hist0)
    IN  IF n = 1
        THEN [kind |-> "ZeroDivisionError", printed |-> <<>>]
        ELSE
        LET hist    == AddEps(hist0)
            weight1 == Cumsum(hist)
            weight2 == Reversed(Cumsum(Reversed(hist)))
            sum1    == Cumsum(Weighted(hist, n))
            sum2    == Reversed(Cumsum(Reversed(Weighted(hist, n))))
        IN  IF \E i \in 1..n : Sign(weight1[i]) = 0 \/ Sign(weight2[i]) = 0
            THEN [kind |-> "nan", printed |-> <<"RuntimeWarning">>]
            ELSE LET variance12 == Variance12(weight1, weight2, sum1, sum2, n)
                     idx        == Argmax(variance12, 1, 1)
                 IN  [kind |-> "scalar", printed |-> <<>>,
                      val |-> Frac(BinCenters(n)[idx], n - 1)]

InitOtsu ==
    /\ pc = "call"
    /\ \E n \in 1..MaxBins :
         \E hist \in [1..n -> 0..MaxCount] :
           args = [fn |-> "histogram_otsu", hist |-> hist]
    /\ ret = None
    /\ again = None

\* threshold = histogram_otsu(hist)
CallHistogramOtsu ==
    /\ pc = "call"
    /\ args.fn = "histogram_otsu"
    /\ ret' = histogram_otsu(args.hist)
    /\ pc' = "returned"
    /\ UNCHANGED <<args, again>>

NextOtsu == CallHistogramOtsu

SpecOtsu == InitOtsu /\ [][NextOtsu]_vars

(* ---------------- get_3dseed_from_mid_frame ---------------- *)
\* the mid-frame mask is SeedSide x SeedSide
SeedSide == 3
\* the stack has SeedDepth slices
SeedDepth == 2
\* hole_min ranges over 0..MaxMinSize
MaxMinSize == 2

\* remove_small_objects(mask, min_size): components under connectivity 1
\* with fewer than min_size pixels are cleared; min_size 0 returns a copy
RemoveSmallObjects(mask, shape, min_size) ==
    IF min_size = 0 THEN mask
    ELSE LET ccs             == Label(mask, shape, 1)
             component_sizes == Bincount(ccs)
         IN  Arr([i \in DOMAIN mask |-> mask[i] /\ ~(component_sizes[ccs[i]] < min_size)])

\* np.round of the quotient s/c of naturals: half goes to the even neighbour
RoundHalfEven(sum, c) ==
    LET q == sum \div c
        r == sum % c
    IN  IF 2 * r < c THEN q
        ELSE IF 2 * r > c THEN q + 1
        ELSE IF q % 2 = 0 THEN q ELSE q + 1

\* np.round(regionprops(out1)[idx].centroid): the rounded mean row and column
\* of the pixels labelled idx + 1
RoundedCentroid(out1, shape, lab) ==
    LET px  == {p \in Pos(shape) : At(out1, p) = lab}
        row == [p \in px |-> Coord(p, shape, 1)]
        col == [p \in px |-> Coord(p, shape, 2)]
        RECURSIVE total(_, _)
        total(f, S) == IF S = {} THEN 0
                       ELSE LET p == CHOOSE p \in S : TRUE
                            IN  f[p] + total(f, S \ {p})
    IN  <<RoundHalfEven(total(row, px), Cardinality(px)),
          RoundHalfEven(total(col, px), Cardinality(px))>>

RECURSIVE PlaceSeeds(_, _, _, _, _, _)
\* the loop over range(len(stat)): seed_count += 1, then
\* seed[mid_frame, int(py), int(px)] = seed_count
PlaceSeeds(seed, stack_shape, mid_frame, centroids, idx, seed_count) ==
    IF idx > Len(centroids) THEN seed
    ELSE LET at == mid_frame * Stride(stack_shape, 1)
                   + centroids[idx][1] * Stride(stack_shape, 2)
                   + centroids[idx][2] + 1
         IN  PlaceSeeds([seed EXCEPT ![at] = seed_count + 1], stack_shape, mid_frame,
                        centroids, idx + 1, seed_count + 1)

get_3dseed_from_mid_frame(img, shape, stack_shape, mid_frame, hole_min, bg_seed) ==
    LET out       == RemoveSmallObjects(Threshold(img), shape, hole_min)
        out1      == Label(out, shape, 2)
        nstat     == Max({out1[i] : i \in DOMAIN out1})
        centroids == [idx \in 1..nstat |-> RoundedCentroid(out1, shape, idx)]
        zeros     == [i \in 1..Size(stack_shape) |-> 0]
        seed0     == IF bg_seed
                     THEN [i \in 1..Size(stack_shape) |->
                              IF i <= Stride(stack_shape, 1) THEN 1 ELSE 0]
                     ELSE zeros
    IN  [kind |-> "array", printed |-> <<>>, nstat |-> nstat, centroids |-> centroids,
         val |-> PlaceSeeds(seed0, stack_shape, mid_frame, centroids, 1,
                            IF bg_seed THEN 1 ELSE 0)]

InitSeed ==
    /\ pc = "call"
    /\ \E img \in Images(<<SeedSide, SeedSide>>, SeedSide * SeedSide) :
         \E mid_frame \in 0..(SeedDepth - 1), hole_min \in 0..MaxMinSize,
            bg_seed \in BOOLEAN :
           args = [fn |-> "get_3dseed_from_mid_frame", bw |-> img,
                   shape |-> <<SeedSide, SeedSide>>,
                   stack_shape |-> <<SeedDepth, SeedSide, SeedSide>>,
                   mid_frame |-> mid_frame, hole_min |-> hole_min, bg_seed |-> bg_seed]
    /\ ret = None
    /\ again = None

\* seed = get_3dseed_from_mid_frame(bw, stack_shape, mid_frame, hole_min, bg_seed)
CallGet3dseed ==
    /\ pc = "call"
    /\ args.fn = "get_3dseed_from_mid_frame"
    /\ ret' = get_3dseed_from_mid_frame(args.bw, args.shape, args.stack_shape,
                                        args.mid_frame, args.hole_min, args.bg_seed)
    /\ pc' = "returned"
    /\ UNCHANGED <<args, again>>

NextSeed == CallGet3dseed

SpecSeed == InitSeed /\ [][NextSeed]_vars

(* ---------------- hole_filling: properties ---------------- *)
Returned == pc \in {"returned", "reapplied"}
NDim == Len(args.shape)
\* the false pixels of the thresholded input
Background == {p \in Pos(args.shape) : ~(At(args.bw, p) > 0)}
\* the pixels the call turned from false to true
Filled == {p \in Background : At(ret.val, p)}
\* the connectivity-1 background component of p, in the whole array
HoleOf(p) == Grow({p}, Background, args.shape, 1)
\* the connectivity-1 background component of p, inside p's own z slice
ZOf(p) == Coord(p, args.shape, 1)
SliceHoleOf(p) == Grow({p}, {q \in Background : ZOf(q) = ZOf(p)}, args.shape, 1)
OnBorder(p) ==
    \E k \in 1..NDim : Coord(p, args.shape, k) \in {0, args.shape[k] - 1}

\* C1: for a 2D or 3D input, every position where bw > 0 is true in the
\* result of hole_filling.
C1_Superset ==
    (Returned /\ args.fn = "hole_filling" /\ NDim \in {2, 3}) =>
        /\ ret.kind = "array"
        /\ \A p \in Pos(args.shape) : At(args.bw, p) > 0 => At(ret.val, p)

\* a 3D call that filled a hole and kept foreground next to it
C1_Witness ==
    /\ Returned /\ args.fn = "hole_filling" /\ NDim = 3
    /\ Filled # {}
    /\ \E p \in Pos(args.shape) : At(args.bw, p) > 0 /\ At(ret.val, p)

\* C2: hole_filling applied to its own result, with the same hole_min,
\* hole_max and fill_2d, returns that result unchanged at every position.
C2_Idempotent ==
    (pc = "reapplied" /\ args.fn = "hole_filling") =>
        /\ again.kind = "array"
        /\ \A p \in Pos(args.shape) : At(again.val, p) = At(ret.val, p)

\* a second call on a result in which the first call filled one hole and
\* left another one open
C2_Witness ==
    /\ pc = "reapplied" /\ args.fn = "hole_filling"
    /\ Filled # {}
    /\ Background \ Filled # {}

\* C3: in 2D a background pixel is true in the result exactly when its
\* 4-connected background component has hole_min <= size <= hole_max;
\* touching the image border plays no role.
C3_FilledIffSizeInRange ==
    (Returned /\ args.fn = "hole_filling" /\ NDim = 2) =>
        \A p \in Background :
            At(ret.val, p) <=> /\ args.hole_min <= Cardinality(HoleOf(p))
                           /\ Cardinality(HoleOf(p)) <= args.hole_max

\* a 2D call that filled a component touching the border and left a bigger
\* one open
C3_Witness ==
    /\ Returned /\ args.fn = "hole_filling" /\ NDim = 2
    /\ \E p \in Filled : OnBorder(p)
    /\ \E q \in Background \ Filled : Cardinality(HoleOf(q)) > args.hole_max

\* C4: an input that is neither 2D nor 3D is rejected with an error the
\* caller can tell from a result; the call does not return nothing.
C4_BadDimsRejected ==
    (Returned /\ args.fn = "hole_filling" /\ NDim \notin {2, 3}) =>
        ret.kind = "error"

\* C10: with fill_2d every z slice of the 3D result is the 2D result of
\* that slice alone.
C10_SliceWise ==
    (Returned /\ args.fn = "hole_filling" /\ NDim = 3 /\ args.fill_2d) =>
        \A zz \in 0..(args.shape[1] - 1) :
            Slice(ret.val, args.shape, zz) =
                hole_filling(Slice(args.bw, args.shape, zz), Tail(args.shape),
                             args.hole_min, args.hole_max, TRUE).val

\* a fill_2d call that filled a background region spanning two slices whose
\* volume exceeds hole_max while its size inside each slice does not
C10_Witness ==
    /\ Returned /\ args.fn = "hole_filling" /\ NDim = 3 /\ args.fill_2d
    /\ \E p \in Filled :
         /\ Cardinality(HoleOf(p)) > args.hole_max
         /\ \E q \in HoleOf(p) : ZOf(q) # ZOf(p)
         /\ Cardinality(SliceHoleOf(p)) <= args.hole_max


(* ---------------- topology_preserving_thinning: properties ---------------- *)
\* C6: the result is bw minus the voxels that are in safe_zone and in
\* rm_candidate; foreground outside the safe zone stays, no background
\* voxel becomes foreground, and the erosion of bw by ball(thin) survives.
C6_ThinningRemovesOnlySafeCandidates ==
    (Returned /\ args.fn = "topology_preserving_thinning") =>
        \A i \in DOMAIN args.bw :
            LET bw == args.bw[i] > 0
            IN  /\ ret.val[i] <=> (bw /\ ~(ret.safe_zone[i] /\ ret.rm_candidate[i]))
                /\ (bw /\ ~ret.safe_zone[i]) => ret.val[i]
                /\ ret.val[i] => bw
                /\ ret.eroded[i] => ret.val[i]

\* a call that removed a safe voxel, kept one the erosion removes because it
\* is outside the safe zone, and kept a voxel of the erosion
C6_Witness ==
    /\ Returned /\ args.fn = "topology_preserving_thinning"
    /\ \E i \in DOMAIN args.bw : args.bw[i] > 0 /\ ~ret.val[i]
    /\ \E i \in DOMAIN args.bw :
         args.bw[i] > 0 /\ ret.rm_candidate[i] /\ ~ret.safe_zone[i] /\ ret.val[i]
    /\ \E i \in DOMAIN args.bw : ret.eroded[i]


(* ---------------- divide_nonzero: properties ---------------- *)
IsZero(v) == v.kind = "num" /\ v.num = 0

\* v = x / y for integers x and y # 0
IsQuotient(v, x, y) == v.kind = "num" /\ v.exp = 0 /\ v.num * y = x * v.den

\* C8: divide_nonzero returns zero wherever array2 is zero, whatever array1
\* holds there, and array1/array2 wherever array2 is not zero.
C8_ZeroWhereDivisorZero ==
    (Returned /\ args.fn = "divide_nonzero") =>
        \A i \in DOMAIN args.array2 :
            IF args.array2[i] = 0
            THEN IsZero(ret.val[i])
            ELSE IsQuotient(ret.val[i], args.array1[i], args.array2[i])

(* ---------------- absolute_eigenvaluesh: properties ---------------- *)
\* how often x occurs in the sequence s
Count(s, x) == Cardinality({i \in DOMAIN s : s[i] = x})

\* C9: absolute_eigenvaluesh returns one array per rank; for every matrix the
\* ranks are a permutation of its eigenvalues, signs kept, in non-decreasing
\* absolute value, so eigenvalues {3, -5} give the ranks [3, -5].
C9_SortedByAbsoluteValue ==
    (Returned /\ args.fn = "absolute_eigenvaluesh") =>
        /\ ret.kind = "list"
        /\ Len(ret.val) = args.n
        /\ \A b \in DOMAIN args.nd_array :
             LET ranks == [r \in 1..args.n |-> ret.val[r][b]]
             IN  /\ \A x \in EigVals : Count(ranks, x) = Count(args.nd_array[b], x)
                 /\ \A r \in 1..(args.n - 1) : Abs(ranks[r]) <= Abs(ranks[r + 1])
                 /\ args.nd_array[b] \in {<<3, -5>>, <<-5, 3>>} => ranks = <<3, -5>>

\* the matrix [[3, 0], [0, -5]] got the ranks 3, -5, next to a matrix whose
\* eigenvalues 3 and -3 tie in absolute value
C9_Witness ==
    /\ Returned /\ args.fn = "absolute_eigenvaluesh"
    /\ \E b, c \in DOMAIN args.nd_array :
         /\ args.nd_array[b] = <<3, -5>>
         /\ ret.val[1][b] = 3 /\ ret.val[2][b] = -5
         /\ args.nd_array[c] = <<3, -3>>


(* ---------------- histogram_otsu: properties ---------------- *)
\* the biased count of bin i (from 0)
Biased(i) == <<args.hist[i + 1], 1>>

RECURSIVE ClassWeight(_, _)
\* sum of the biased counts of bins lo..hi
ClassWeight(lo, hi) ==
    IF lo > hi THEN <<0>> ELSE PAdd(Biased(lo), ClassWeight(lo + 1, hi))

RECURSIVE ClassMoment(_, _)
\* sum of count * bin number over bins lo..hi
ClassMoment(lo, hi) ==
    IF lo > hi THEN <<0>>
    ELSE PAdd(PScale(Biased(lo), lo), ClassMoment(lo + 1, hi))

\* between-class variance of the split after bin k (from 0), times (n-1)^2:
\* w1*w2*(m1 - m2)^2 with m = moment/weight
BetweenClass(k) ==
    LET n  == Len(args.hist)
        w1 == ClassWeight(0, k)
        w2 == ClassWeight(k + 1, n - 1)
        d  == PSub(PMul(ClassMoment(0, k), w2), PMul(ClassMoment(k + 1, n - 1), w1))
    IN  Frac(PMul(d, d), PMul(w1, w2))

SliceOfStack(z) ==
    {i \in 1..Size(args.stack_shape) : Coord(i - 1, args.stack_shape, 1) = z}

\* C5: with bg_seed every voxel of slice z=0 holds seed id 1, and the
\* retained components get the ids 2, 3, ..., each id on exactly one voxel of
\* slice mid_frame.
C5_BackgroundSliceAndUniqueSeeds ==
    (Returned /\ args.fn = "get_3dseed_from_mid_frame" /\ args.bg_seed) =>
        /\ \A i \in SliceOfStack(0) : ret.val[i] = 1
        /\ \A id \in 2..(ret.nstat + 1) :
             Cardinality({i \in SliceOfStack(args.mid_frame) : ret.val[i] = id}) = 1

====
